---- MODULE Spec2Model ----
(***************************************************************************)
(* A model of the nRF52 NOR flash driver, src/flash/nor/nrf52.c.           *)
(*                                                                         *)
(* Every C function of the driver is an operator that takes the machine    *)
(* record m (target flash, NVMC CONFIG register, chip and bank structures, *)
(* the log of target accesses made so far in the current call) and the     *)
(* environment plan p of the call (which target access fails, from which   *)
(* poll on the NVMC stays busy, how much working area the target has) and  *)
(* returns the machine afterwards together with the C return value.        *)
(* One driver entry point is one action; Return hands control back to the  *)
(* command loop and forgets the finished call.                             *)
(***************************************************************************)
EXTENDS Integers, Sequences, FiniteSets, TLC

VARIABLES flash, nvmc_config, chip, bank, pc, call, budget, requests, loader

vars == <<flash, nvmc_config, chip, bank, pc, call, budget, requests, loader>>

----------------------------------------------------------------------------
(* Bounds of the model. *)

\* number of 4-byte words in one flash page (FICR.CODEPAGESIZE / 4)
PageWords == 1
\* number of pages of the code region (FICR.CODESIZE)
NumPages == 2
\* number of calls of a bounded command loop
MaxCalls == 3
\* the words of the data area of the streaming buffer
FifoWords == 3
\* the most words one run of the loader is given to store
StreamWords == 3

----------------------------------------------------------------------------
(* Program constants. *)

NRF52_FLASH_BASE_ADDR == 0
NRF52_FICR_CODEPAGESIZE_ADDR == 268435472
NRF52_FICR_CODESIZE_ADDR == 268435476
NRF52_UICR_BASE_ADDR == 268439552
NRF52_NVMC_READY_ADDR == 1073865728
NRF52_NVMC_CONFIG_ADDR == 1073865988
NRF52_NVMC_ERASEPAGE_ADDR == 1073865992
NRF52_NVMC_ERASEALL_ADDR == 1073865996
NRF52_NVMC_ERASEUICR_ADDR == 1073866004

NRF52_NVMC_CONFIG_REN == 0
NRF52_NVMC_CONFIG_WEN == 1
NRF52_NVMC_CONFIG_EEN == 2

\* int timeout = 100 in nrf52_wait_for_nvmc
PollTimeout == 100
\* bytes of one flash word: target_write_memory(.., 4, 1, ..), bytes -= 4
WordBytes == 4
\* sizeof(nrf52_flash_write_code)
LoaderCodeSize == 32
\* uint32_t buffer_size = 8192 in nrf52_ll_flash_write
LoaderBufferSize == 8192
\* if (buffer_size <= 256) give up
LoaderBufferFloor == 256
\* sector status "unknown" and "erased" / "protected"
StatusUnknown == -1
StatusClear == 0
StatusSet == 1

ERROR_OK == "ERROR_OK"
ERROR_FAIL == "ERROR_FAIL"
ERROR_IO == "ERROR_TARGET_IO"
ERROR_FLASH_BUSY == "ERROR_FLASH_BUSY"
ERROR_FLASH_SECTOR_INVALID == "ERROR_FLASH_SECTOR_INVALID"
ERROR_FLASH_BANK_NOT_PROBED == "ERROR_FLASH_BANK_NOT_PROBED"
ERROR_TARGET_RESOURCE_NOT_AVAILABLE == "ERROR_TARGET_RESOURCE_NOT_AVAILABLE"
\* the call never returns: the host process ended inside it
HostFault == "host fault"

\* uint32_t arithmetic wraps; the model wraps at 2^30, the widest power of
\* two whose sums of two values stay below 2^31.  The NVMC
\* and FICR register addresses lie above it and are only compared, never
\* computed with.
UintModulus == 1024 * 1024 * 1024
U32(x) == x % UintModulus

\* the values the two FICR identity registers read
FICR_CODEPAGESIZE == WordBytes * PageWords
FICR_CODESIZE == NumPages

\* a flash byte is one bit wide in the model; an erased byte has every bit set
ErasedByte == 1
FlashAnd(old, new) == old * new

CodeAddrs == 0 .. (FICR_CODESIZE * FICR_CODEPAGESIZE - 1)
UicrAddrs == NRF52_UICR_BASE_ADDR .. (NRF52_UICR_BASE_ADDR + FICR_CODEPAGESIZE - 1)
FlashAddrs == CodeAddrs \cup UicrAddrs

----------------------------------------------------------------------------
(* The environment plan of one call and the log of its target accesses. *)

NoPlan == [kind |-> "none", at |-> 0, persist |-> FALSE, wa |-> 0, partial |-> 0,
           zeroes |-> FALSE, oob |-> "stray"]

\* what a memcpy past the end of its destination does, the behaviour being
\* undefined: the bytes land in other memory of the host ("stray"), the
\* destination pointer wraps at 32 bits and the bytes past the wrap land at
\* the start of the array ("wrap"), or the host process ends ("stop")
OutOfBounds == {"stray", "wrap", "stop"}

\* a log entry: the kind of access, two arguments, a value and the result
EvV(e, a, b, v, r) == [e |-> e, a |-> a, b |-> b, v |-> v, r |-> r]
Ev(e, a, b, r) == EvV(e, a, b, 0, r)

\* the access in slot m.n is the one the plan names, or a later one of a
\* persistent fault
Hit(m, p) == m.n = p.at \/ (p.persist /\ m.n > p.at)
IoFails(m, p) == p.kind = "io" /\ Hit(m, p)
NvmcBusy(m, p) == p.kind = "busy" /\ Hit(m, p)

\* one target access has been made: log it and move to the next slot
Access(m, ev) == [m EXCEPT !.log = Append(@, ev), !.n = @ + 1]
Note(m, ev) == [m EXCEPT !.log = Append(@, ev)]

Ret(m, res) == [m |-> m, res |-> res]

\* if (res != ERROR_OK) return res; and then the rest of the function
OnOk(r, Rest(_)) == IF r.res # ERROR_OK THEN r ELSE Rest(r.m)

----------------------------------------------------------------------------
(* nrf52_wait_for_nvmc: the do { } while (timeout--) loop.                  *)
(* readyAfter is the number of reads of NVMC.READY that answer busy before *)
(* the flag reads ready, failRead the index of the read that fails (-1:    *)
(* none).  Loop body i (from 0) runs with timeout = PollTimeout - i: it     *)
(* reads the flag, returns when the read failed or the flag is ready, and  *)
(* sleeps otherwise; the test timeout-- after it continues the loop while  *)
(* the value it reads is not 0.  The result carries the numbers of reads   *)
(* and of sleeps performed.                                                *)

\* a number of busy reads no poll outlasts: the NVMC never reads ready
NeverReady == 2 * PollTimeout

ReadFails(i, failRead) == i = failRead
ReadsReady(i, readyAfter) == i >= readyAfter
BodyReturns(i, readyAfter, failRead) ==
    ReadFails(i, failRead) \/ ReadsReady(i, readyAfter)

\* while (timeout--) after body i
LoopContinues(i) == PollTimeout - i # 0

\* the last body the loop runs
LastBody(readyAfter, failRead) ==
    CHOOSE i \in 0 .. NeverReady :
        /\ BodyReturns(i, readyAfter, failRead) \/ ~LoopContinues(i)
        /\ \A j \in 0 .. (i - 1) :
              ~BodyReturns(j, readyAfter, failRead) /\ LoopContinues(j)

\* a poll that reports a failed read as a timeout
WaitResultIoAsBusy(i, readyAfter, failRead) ==
    IF ReadsReady(i, readyAfter) /\ ~ReadFails(i, failRead)
    THEN [res |-> ERROR_OK, reads |-> i + 1, sleeps |-> i]
    ELSE [res |-> ERROR_FLASH_BUSY, reads |-> i + 1, sleeps |-> i + 1]

\* the result of the poll whose last body is i
WaitResult(i, readyAfter, failRead) ==
    IF ReadFails(i, failRead)
    THEN [res |-> ERROR_IO, reads |-> i + 1, sleeps |-> i]
    ELSE IF ReadsReady(i, readyAfter)
    THEN [res |-> ERROR_OK, reads |-> i + 1, sleeps |-> i]
    ELSE [res |-> ERROR_FLASH_BUSY, reads |-> i + 1, sleeps |-> i + 1]

nrf52_wait_for_nvmc_poll(readyAfter, failRead) ==
    WaitResult(LastBody(readyAfter, failRead), readyAfter, failRead)


\* the poll as one access slot of a driver call
nrf52_wait_for_nvmc(m, p) ==
    LET Polled(r) == Ret(Access(m, Ev("wait", r.reads, r.sleeps, r.res)), r.res)
    IN  Polled(nrf52_wait_for_nvmc_poll(IF NvmcBusy(m, p) THEN NeverReady ELSE 0,
                                        IF IoFails(m, p) THEN 0 ELSE -1))

----------------------------------------------------------------------------
(* The three mode transitions. *)

\* target_write_u32 to NVMC.CONFIG: a failed write does not reach the register
WriteConfig(m, p, value) ==
    IF IoFails(m, p)
    THEN Ret(Access(m, Ev("cfg", value, m.config, ERROR_IO)), ERROR_IO)
    ELSE Ret(Access([m EXCEPT !.config = value], Ev("cfg", value, m.config, ERROR_OK)),
             ERROR_OK)

\* an erase-enable that does not report the failure of its write to CONFIG
nrf52_nvmc_erase_enable_unchecked(m, p) ==
    LET Unchecked(r) == Ret(r.m, ERROR_OK)
    IN  OnOk(nrf52_wait_for_nvmc(m, p),
             LAMBDA m1 : Unchecked(WriteConfig(m1, p, NRF52_NVMC_CONFIG_EEN)))

nrf52_nvmc_erase_enable(m, p) ==
    OnOk(nrf52_wait_for_nvmc(m, p),
         LAMBDA m1 : WriteConfig(m1, p, NRF52_NVMC_CONFIG_EEN))

nrf52_nvmc_write_enable(m, p) ==
    OnOk(nrf52_wait_for_nvmc(m, p),
         LAMBDA m1 : WriteConfig(m1, p, NRF52_NVMC_CONFIG_WEN))

nrf52_nvmc_read_only(m, p) ==
    OnOk(nrf52_wait_for_nvmc(Note(m, Ev("read_only", 0, m.config, ERROR_OK)), p),
         LAMBDA m1 : WriteConfig(m1, p, NRF52_NVMC_CONFIG_REN))

----------------------------------------------------------------------------
(* What the target does with the driver's accesses.                        *)

PageOf(addr) == (addr \div FICR_CODEPAGESIZE) * FICR_CODEPAGESIZE

\* the flash after a write of value to the erase-trigger register reg: the
\* NVMC erases only while CONFIG holds erase-enable
HwEraseTrigger(fl, config, reg, value) ==
    IF config # NRF52_NVMC_CONFIG_EEN THEN fl
    ELSE IF reg = NRF52_NVMC_ERASEALL_ADDR
    THEN [a \in FlashAddrs |-> ErasedByte]
    ELSE IF reg = NRF52_NVMC_ERASEUICR_ADDR
    THEN [a \in FlashAddrs |-> IF a \in UicrAddrs THEN ErasedByte ELSE fl[a]]
    ELSE [a \in FlashAddrs |->
            IF a \in CodeAddrs /\ PageOf(a) = PageOf(value) THEN ErasedByte ELSE fl[a]]

\* the flash after nbytes of data are stored at addr: NOR flash clears bits
\* and never sets them, and it is written only while CONFIG holds write-enable
HwProgram(fl, config, addr, data, nbytes) ==
    IF config # NRF52_NVMC_CONFIG_WEN THEN fl
    ELSE [a \in FlashAddrs |->
            IF a >= addr /\ a < addr + nbytes THEN FlashAnd(fl[a], data[a - addr])
            ELSE fl[a]]

\* target_write_u32 to an erase-trigger register
WriteTrigger(m, p, reg, value) ==
    IF IoFails(m, p)
    THEN Ret(Access(m, EvV("trig", reg, m.config, value, ERROR_IO)), ERROR_IO)
    ELSE Ret(Access([m EXCEPT !.flash = HwEraseTrigger(m.flash, m.config, reg, value)],
                    EvV("trig", reg, m.config, value, ERROR_OK)), ERROR_OK)

\* target_read_u32 of an identity register into a variable that holds old:
\* a read that fails leaves the variable as it was or, with p.zeroes, at 0
ReadFicr(m, p, addr, old) ==
    IF IoFails(m, p)
    THEN [m |-> Access(m, Ev("ficr", addr, 0, ERROR_IO)), res |-> ERROR_IO,
          val |-> IF p.zeroes THEN 0 ELSE old]
    ELSE [m |-> Access(m, Ev("ficr", addr, 0, ERROR_OK)), res |-> ERROR_OK,
          val |-> IF addr = NRF52_FICR_CODEPAGESIZE_ADDR THEN FICR_CODEPAGESIZE
                  ELSE FICR_CODESIZE]

\* target_read_memory of len bytes at addr; memory outside the flash is not
\* readable
target_read_memory(m, p, addr, len) ==
    IF IoFails(m, p) \/ \E i \in 0 .. (len - 1) : (addr + i) \notin FlashAddrs
    THEN [m |-> Access(m, Ev("read", addr, len, ERROR_IO)), res |-> ERROR_IO,
          data |-> [i \in 0 .. (len - 1) |-> 0]]
    ELSE [m |-> Access(m, Ev("read", addr, len, ERROR_OK)), res |-> ERROR_OK,
          data |-> [i \in 0 .. (len - 1) |-> m.flash[addr + i]]]

\* target_write_memory of one word at addr, taken from data at index from
target_write_memory(m, p, addr, data, from) ==
    IF IoFails(m, p)
    THEN Ret(Access(m, Ev("word", addr, m.config, ERROR_IO)), ERROR_IO)
    ELSE Ret(Access([m EXCEPT !.flash = HwProgram(m.flash, m.config, addr,
                                    [i \in 0 .. (WordBytes - 1) |-> data[from + i]],
                                    WordBytes)],
                    Ev("word", addr, m.config, ERROR_OK)), ERROR_OK)

----------------------------------------------------------------------------
(* nrf52_nvmc_generic_erase, nrf52_erase_all *)

\* a generic erase that skips the read-only transition after a failed trigger
nrf52_nvmc_generic_erase_noDisarm(m, p, erase_register, erase_value) ==
    OnOk(nrf52_nvmc_erase_enable(m, p),
         LAMBDA m1 : OnOk(WriteTrigger(m1, p, erase_register, erase_value),
                          LAMBDA m2 : nrf52_nvmc_read_only(m2, p)))

\* the result of the trigger write is logged and dropped
nrf52_nvmc_generic_erase(m, p, erase_register, erase_value) ==
    OnOk(nrf52_nvmc_erase_enable(m, p),
         LAMBDA m1 : nrf52_nvmc_read_only(
                        WriteTrigger(m1, p, erase_register, erase_value).m, p))

nrf52_erase_all(m, p) ==
    nrf52_nvmc_generic_erase(m, p, NRF52_NVMC_ERASEALL_ADDR, 1)

----------------------------------------------------------------------------
(* nrf52_probe, nrf52_auto_probe, nrf52_find_sector_by_address *)

NullSectors == << >>

\* a probe whose sector table starts one page too high
CodeSectorsShifted(num, page_size) ==
    [i \in 1 .. num |-> [offset |-> U32(i * page_size), size |-> page_size,
                         is_erased |-> StatusUnknown, is_protected |-> StatusUnknown]]

\* sector i (from 0) of a code bank of num sectors
CodeSectors(num, page_size) ==
    [i \in 1 .. num |-> [offset |-> U32((i - 1) * page_size), size |-> page_size,
                         is_erased |-> StatusUnknown, is_protected |-> StatusUnknown]]

\* the sector table of the bank of base address base
BankSectors(base, num, page_size) ==
    IF base = NRF52_FLASH_BASE_ADDR THEN CodeSectors(num, page_size)
    ELSE <<[offset |-> 0, size |-> page_size,
            is_erased |-> StatusUnknown, is_protected |-> StatusUnknown]>>

\* p.kind = "calloc": the allocation of the sector table fails
nrf52_probe(m, p, b) ==
    LET Sized(m2, size, num, cps) ==
            IF p.kind = "calloc"
            THEN Ret([m2 EXCEPT !.bank[b].size = size, !.bank[b].num_sectors = num,
                                !.bank[b].sectors = NullSectors],
                     ERROR_FLASH_BANK_NOT_PROBED)
            ELSE Ret([m2 EXCEPT !.bank[b].size = size, !.bank[b].num_sectors = num,
                                !.bank[b].sectors = BankSectors(m2.bank[b].base, num, cps),
                                !.chip.probed[b] = TRUE],
                     ERROR_OK)
        Known(m2, cms, cps) ==
            IF m2.bank[b].base = NRF52_FLASH_BASE_ADDR
            THEN Sized(m2, cms, cms \div cps, cps)
            ELSE Sized(m2, cps, 1, cps)
        AfterSize(r2, cps) ==
            IF r2.res # ERROR_OK
            THEN Ret([r2.m EXCEPT !.chip.code_memory_size = r2.val], r2.res)
            ELSE Known([r2.m EXCEPT !.chip.code_memory_size = U32(r2.val * cps)],
                       U32(r2.val * cps), cps)
        AfterPage(r1) ==
            IF r1.res # ERROR_OK
            THEN Ret([r1.m EXCEPT !.chip.code_page_size = r1.val], r1.res)
            ELSE AfterSize(ReadFicr([r1.m EXCEPT !.chip.code_page_size = r1.val],
                                    p, NRF52_FICR_CODESIZE_ADDR,
                                    r1.m.chip.code_memory_size),
                           r1.val)
    IN  AfterPage(ReadFicr(m, p, NRF52_FICR_CODEPAGESIZE_ADDR, m.chip.code_page_size))

nrf52_bank_is_probed(m, b) == m.chip.probed[b]

nrf52_auto_probe(m, p, b) ==
    IF ~nrf52_bank_is_probed(m, b) THEN nrf52_probe(m, p, b) ELSE Ret(m, ERROR_OK)

\* the index (from 1) of the first sector whose page holds address, 0 for NULL
RECURSIVE FindFrom(_, _, _, _)
FindFrom(bk, page_size, address, i) ==
    IF i > bk.num_sectors THEN 0
    ELSE IF bk.sectors[i].offset <= address
            /\ address < U32(bk.sectors[i].offset + page_size)
    THEN i
    ELSE FindFrom(bk, page_size, address, i + 1)

\* a lookup that takes the bank's base address off the address first
nrf52_find_sector_by_address_rebased(m, b, address) ==
    IF address < m.bank[b].base THEN 0
    ELSE FindFrom(m.bank[b], m.chip.code_page_size, address - m.bank[b].base, 1)

nrf52_find_sector_by_address(m, b, address) ==
    FindFrom(m.bank[b], m.chip.code_page_size, address, 1)

----------------------------------------------------------------------------
(* nrf52_erase_page, nrf52_erase *)

nrf52_erase_page(m, p, b, s) ==
    LET Marked(r) ==
            IF r.res = ERROR_OK
            THEN Ret([r.m EXCEPT !.bank[b].sectors[s].is_erased = StatusSet], r.res)
            ELSE r
    IN  IF m.bank[b].sectors[s].is_protected = StatusSet THEN Ret(m, ERROR_FAIL)
        ELSE Marked(nrf52_nvmc_generic_erase(
                       m, p,
                       IF m.bank[b].base = NRF52_UICR_BASE_ADDR
                       THEN NRF52_NVMC_ERASEUICR_ADDR ELSE NRF52_NVMC_ERASEPAGE_ADDR,
                       IF m.bank[b].base = NRF52_UICR_BASE_ADDR
                       THEN 1 ELSE m.bank[b].sectors[s].offset))

\* for (s = first; s <= last && res == ERROR_OK; s++), sectors counted from 1
RECURSIVE EraseLoop(_, _, _, _, _, _)
EraseLoop(m, p, b, s, last, res) ==
    LET Step(r) == EraseLoop(r.m, p, b, s + 1, last, r.res)
    IN  IF s <= last /\ res = ERROR_OK
        THEN Step(nrf52_erase_page(m, p, b, s))
        ELSE Ret(m, res)

nrf52_erase(m, p, b, first, last) == EraseLoop(m, p, b, first + 1, last + 1, ERROR_OK)

----------------------------------------------------------------------------
(* nrf52_ll_flash_write *)

\* target_alloc_working_area: the target has p.wa bytes of working area, of
\* which used are taken
AllocOk(p, used, size) == used + size <= p.wa

\* a slow path that does not wait for the NVMC after a word
RECURSIVE SlowLoopNoWait(_, _, _, _, _, _)
SlowLoopNoWait(m, p, offset, buffer, from, bytes) ==
    IF bytes > 0
    THEN OnOk(target_write_memory(m, p, offset, buffer, from),
              LAMBDA m1 : SlowLoopNoWait(m1, p, offset + WordBytes, buffer,
                                         from + WordBytes, bytes - WordBytes))
    ELSE Ret(m, ERROR_OK)

\* the slow path: for (; bytes > 0; bytes -= 4) write one word, wait
RECURSIVE SlowLoop(_, _, _, _, _, _)
SlowLoop(m, p, offset, buffer, from, bytes) ==
    IF bytes > 0
    THEN OnOk(target_write_memory(m, p, offset, buffer, from),
              LAMBDA m1 : OnOk(nrf52_wait_for_nvmc(m1, p),
                               LAMBDA m2 : SlowLoop(m2, p, offset + WordBytes, buffer,
                                                    from + WordBytes, bytes - WordBytes)))
    ELSE Ret(m, ERROR_OK)

\* the size of the streaming buffer the shrink loop ends with, 0 when it
\* gives up at the floor
RECURSIVE SourceSize(_, _, _)
SourceSize(p, used, buffer_size) ==
    IF AllocOk(p, used, buffer_size) THEN buffer_size
    ELSE LET half == ((buffer_size \div 2) \div 4) * 4
         IN  IF half <= LoaderBufferFloor THEN 0 ELSE SourceSize(p, used, half)

\* target_write_buffer of the loader program into its working area
LoadProgram(m, p) ==
    IF IoFails(m, p)
    THEN Ret(Access(m, Ev("load", LoaderCodeSize, 0, ERROR_IO)), ERROR_IO)
    ELSE Ret(Access(m, Ev("load", LoaderCodeSize, 0, ERROR_OK)), ERROR_OK)

\* target_run_flash_async_algorithm: the loader stores the words of buffer at
\* address; a failed run has stored the first p.partial words
RunLoader(m, p, address, buffer, bytes) ==
    IF IoFails(m, p)
    THEN LET done == IF p.partial * WordBytes < bytes THEN p.partial * WordBytes ELSE bytes
         IN  Ret(Access([m EXCEPT !.flash = HwProgram(m.flash, m.config, address,
                                                      buffer, done)],
                        EvV("run", address, m.config, bytes, ERROR_IO)), ERROR_IO)
    ELSE Ret(Access([m EXCEPT !.flash = HwProgram(m.flash, m.config, address,
                                                  buffer, bytes)],
                    EvV("run", address, m.config, bytes, ERROR_OK)), ERROR_OK)

nrf52_ll_flash_write(m, p, offset, buffer, bytes) ==
    LET Freed(r, size) ==
            Ret(Note(Note(r.m, Ev("free", size, 1, ERROR_OK)),
                     Ev("free", LoaderCodeSize, 0, ERROR_OK)), r.res)
        Stream(m1, size) ==
            IF size = 0
            THEN Ret(Note(Note(m1, Ev("alloc", 0, 1, ERROR_FAIL)),
                          Ev("free", LoaderCodeSize, 0, ERROR_OK)),
                     ERROR_TARGET_RESOURCE_NOT_AVAILABLE)
            ELSE Freed(RunLoader(Note(m1, Ev("alloc", size, 1, ERROR_OK)), p,
                                 NRF52_FLASH_BASE_ADDR + offset, buffer, bytes),
                       size)
    IN  IF ~AllocOk(p, 0, LoaderCodeSize)
        THEN SlowLoop(Note(m, Ev("alloc", LoaderCodeSize, 0, ERROR_FAIL)),
                      p, offset, buffer, 0, bytes)
        ELSE OnOk(LoadProgram(Note(m, Ev("alloc", LoaderCodeSize, 0, ERROR_OK)), p),
                  LAMBDA m1 : Stream(m1, SourceSize(p, LoaderCodeSize, LoaderBufferSize)))

----------------------------------------------------------------------------
(* nrf52_write_pages, nrf52_code_flash_write, nrf52_uicr_flash_write *)

\* a sector erased whatever its status
EraseAnyway(sector) == TRUE

\* sector->is_erased != 1: the sector is erased before it is written
EraseFirst(sector) == sector.is_erased # StatusSet

\* the erase loop of nrf52_write_pages, from page offset on
RECURSIVE PagesLoop(_, _, _, _, _)
PagesLoop(m, p, b, offset, end) ==
    LET AtSector(s) ==
            IF s = 0 THEN Ret(m, ERROR_FLASH_SECTOR_INVALID)
            ELSE IF m.bank[b].sectors[s].is_protected = StatusSet
            THEN Ret(m, ERROR_FAIL)
            ELSE OnOk(IF EraseFirst(m.bank[b].sectors[s])
                      THEN nrf52_erase_page(m, p, b, s)
                      ELSE Ret(m, ERROR_OK),
                      LAMBDA m1 :
                        PagesLoop([m1 EXCEPT !.bank[b].sectors[s].is_erased = StatusSet],
                                  p, b, U32(offset + m.chip.code_page_size), end))
    IN  IF offset < end
        THEN AtSector(nrf52_find_sector_by_address(m, b, offset))
        ELSE Ret(m, ERROR_OK)

\* the end of both write functions: with the result w of the low-level write,
\* the controller goes back to read-only; a failed write returns its own error
WriteDone(w, ro) == IF w.res # ERROR_OK THEN Ret(ro.m, w.res) ELSE ro

\* a page writer that enables write mode before it erases
nrf52_write_pages_enableFirst(m, p, b, start, end, buffer) ==
    LET Written(w) == WriteDone(w, nrf52_nvmc_read_only(w.m, p))
    IN  OnOk(nrf52_nvmc_write_enable(m, p),
             LAMBDA m1 :
               OnOk(PagesLoop(m1, p, b, start, end),
                    LAMBDA m2 :
                      Written(nrf52_ll_flash_write(m2, p, start, buffer,
                                                   U32(end - start)))))

nrf52_write_pages(m, p, b, start, end, buffer) ==
    LET Written(w) == WriteDone(w, nrf52_nvmc_read_only(w.m, p))
    IN  OnOk(PagesLoop(m, p, b, start, end),
             LAMBDA m1 :
               OnOk(nrf52_nvmc_write_enable(m1, p),
                    LAMBDA m2 :
                      Written(nrf52_ll_flash_write(m2, p, start, buffer,
                                                   U32(end - start)))))

DIV_ROUND_UP(x, d) == U32(x + d - 1) \div d

\* the read of a gap of len bytes at addr; no read is made of an empty gap
ReadGap(m, p, addr, len) ==
    IF len > 0 THEN target_read_memory(m, p, addr, len)
    ELSE [m |-> m, res |-> ERROR_OK, data |-> << >>]

\* the padding of a code write: first_page * code_page_size,
\* last_page * code_page_size, and the two gaps pre and post
FirstPageOffset(cps, offset) == U32((offset \div cps) * cps)
LastPageOffset(cps, offset, count) == U32(DIV_ROUND_UP(U32(offset + count), cps) * cps)
PreGap(cps, offset) == U32(offset - FirstPageOffset(cps, offset))
\* a trailing gap taken as the page less the buffer
PostGapOfPage(cps, offset, count) == U32(cps - count)

PostGap(cps, offset, count) ==
    U32(LastPageOffset(cps, offset, count) - U32(offset + count))

nrf52_code_flash_write(m, p, b, buffer, offset, count) ==
    LET cps == m.chip.code_page_size
        first_page_offset == FirstPageOffset(cps, offset)
        last_page_offset == LastPageOffset(cps, offset, count)
        pre == PreGap(cps, offset)
        post == PostGap(cps, offset, count)
        buffer_to_flash(head, tail) ==
            [i \in 0 .. (pre + count + post - 1) |->
                IF i < pre THEN head[i]
                ELSE IF i < pre + count THEN buffer[i - pre]
                ELSE tail[i - pre - count]]
        AfterPost(r2, head) ==
            IF r2.res # ERROR_OK THEN Ret(r2.m, r2.res)
            ELSE nrf52_write_pages(r2.m, p, b, first_page_offset, last_page_offset,
                                   buffer_to_flash(head, r2.data))
        AfterPre(r1) ==
            IF r1.res # ERROR_OK THEN Ret(r1.m, r1.res)
            ELSE AfterPost(ReadGap(r1.m, p, U32(offset + count), post), r1.data)
    IN  AfterPre(ReadGap(m, p, first_page_offset, pre))

nrf52_uicr_flash_write(m, p, b, buffer, offset, count) ==
    LET nrf52_uicr_size == m.chip.code_page_size
        overrun == offset + count > nrf52_uicr_size
        uicr(old) == [i \in 0 .. (nrf52_uicr_size - 1) |->
                        IF i >= offset /\ i < offset + count
                        THEN buffer[i - offset]
                        ELSE IF overrun /\ p.oob = "wrap" /\ U32(i - offset) < count
                        THEN buffer[U32(i - offset)]
                        ELSE old[i]]
        Written(w) == WriteDone(w, nrf52_nvmc_read_only(w.m, p))
        AfterRead(r) ==
            IF r.res # ERROR_OK THEN Ret(r.m, r.res)
            ELSE OnOk(IF EraseFirst(r.m.bank[b].sectors[1])
                      THEN nrf52_erase_page(r.m, p, b, 1)
                      ELSE Ret(r.m, ERROR_OK),
                      LAMBDA m1 :
                        OnOk(IF overrun /\ p.oob = "stop"
                             THEN Ret(m1, HostFault)
                             ELSE nrf52_nvmc_write_enable(m1, p),
                             LAMBDA m2 :
                               Written(nrf52_ll_flash_write(m2, p, NRF52_UICR_BASE_ADDR,
                                                            uicr(r.data),
                                                            nrf52_uicr_size))))
    IN  IF U32(offset + count) > nrf52_uicr_size THEN Ret(m, ERROR_FAIL)
        ELSE AfterRead(target_read_memory(m, p, NRF52_UICR_BASE_ADDR, nrf52_uicr_size))

\* chip->bank[bank->bank_number].write, bound by nrf52_flash_bank_command
nrf52_write(m, p, b, buffer, offset, count) ==
    IF m.bank[b].base = NRF52_FLASH_BASE_ADDR
    THEN nrf52_code_flash_write(m, p, b, buffer, offset, count)
    ELSE nrf52_uicr_flash_write(m, p, b, buffer, offset, count)

----------------------------------------------------------------------------
(* nrf52_handle_mass_erase_command *)

CodeBank == 0
UicrBank == 1

\* get_flash_bank_by_addr(target, addr, true, &bank) of the flash core: it
\* auto-probes the bank at addr and hands it back, or the error of the probe
get_flash_bank_by_addr(m, p, b) == nrf52_auto_probe(m, p, b)

\* a marking loop that stops one sector early
MarkAllButLastErased(bk) ==
    [bk EXCEPT !.sectors = [i \in 1 .. bk.num_sectors |->
                              IF i < bk.num_sectors
                              THEN [bk.sectors[i] EXCEPT !.is_erased = StatusSet]
                              ELSE bk.sectors[i]]]

MarkAllErased(bk) ==
    [bk EXCEPT !.sectors = [i \in 1 .. bk.num_sectors |->
                              [bk.sectors[i] EXCEPT !.is_erased = StatusSet]]]

nrf52_handle_mass_erase_command(m, p) ==
    OnOk(get_flash_bank_by_addr(m, p, CodeBank),
         LAMBDA m1 :
           OnOk(nrf52_erase_all(m1, p),
                LAMBDA m2 :
                  OnOk(get_flash_bank_by_addr(
                          [m2 EXCEPT !.bank[CodeBank] = MarkAllErased(@)], p, UicrBank),
                       LAMBDA m3 :
                         Ret([m3 EXCEPT !.bank[UicrBank].sectors[1].is_erased = StatusSet],
                             ERROR_OK))))

----------------------------------------------------------------------------
(* nrf52_flash_write_code: the loader that runs on the target, and the     *)
(* host that feeds it.  The streaming buffer begins with two words, the    *)
(* write pointer wp of the host and the read pointer rp of the loader,     *)
(* followed by the data area of FifoWords words, used as a ring.  The      *)
(* loader runs with r0 the bytes left, r1 the buffer, r2 its end, r3 the   *)
(* destination; stored is the sequence of <<address, word>> of its stores. *)
(* The host, target_run_flash_async_algorithm of the target core, is taken *)
(* from the description of the protocol: it writes words of the source     *)
(* into free cells of the ring, keeping one cell empty, then moves wp; it  *)
(* gives up a run by writing 0 to wp.                                      *)

\* source->address, and the registers r1 and r2 of the run
source_address == 64
r1 == source_address
r2 == source_address + 2 * WordBytes + FifoWords * WordBytes
\* the first cell of the data area
fifo_start == r1 + 2 * WordBytes

\* the cell of the data area at address a, and the address after a in the ring
CellAt(a) == (a - fifo_start) \div WordBytes
NextInRing(a) == IF a + WordBytes >= r2 THEN fifo_start ELSE a + WordBytes

\* word i of the buffer that is written, every word different
SourceWord(i) == 100 + i

\* no run of the loader
NoLoader ==
    [at |-> "none", r0 |-> 0, r3 |-> 0, r4 |-> 0, r5 |-> 0, wp |-> 0, rp |-> 0,
     cells |-> [i \in 0 .. (FifoWords - 1) |-> 0], stored |-> << >>,
     host |-> "none", hrp |-> 0, hwp |-> 0, sent |-> 0, filled |-> 0, total |-> 0]

\* the run as target_run_flash_async_algorithm starts it: both pointers at
\* the first cell, r0 = bytes, r3 = address
StartedLoader(address, bytes) ==
    [NoLoader EXCEPT !.at = "wait_fifo", !.r0 = bytes, !.r3 = address,
                     !.wp = fifo_start, !.rp = fifo_start,
                     !.host = "read", !.total = bytes \div WordBytes]

LoaderSteps(next) ==
    /\ loader' = next
    /\ UNCHANGED <<flash, nvmc_config, chip, bank, pc, call, budget, requests>>

\* an ldr of rp that does not compare it with wp
ldr_rp_noCompare ==
    /\ loader.at = "ldr_rp"
    /\ LoaderSteps([loader EXCEPT !.r4 = loader.rp, !.at = "ldmia"])

\* wait_fifo: ldr r5, [r1, #0]; cmp r5, #0; beq exit
wait_fifo ==
    /\ loader.at = "wait_fifo"
    /\ LoaderSteps([loader EXCEPT !.r5 = loader.wp,
                                  !.at = IF loader.wp = 0 THEN "exit" ELSE "ldr_rp"])

\* ldr r4, [r1, #4]; cmp r4, r5; beq wait_fifo
ldr_rp ==
    /\ loader.at = "ldr_rp"
    /\ LoaderSteps([loader EXCEPT !.r4 = loader.rp,
                                  !.at = IF loader.rp = loader.r5 THEN "wait_fifo"
                                         ELSE "ldmia"])

\* ldmia r4!, {r5}
ldmia ==
    /\ loader.at = "ldmia"
    /\ LoaderSteps([loader EXCEPT !.r5 = loader.cells[CellAt(loader.r4)],
                                  !.r4 = U32(loader.r4 + WordBytes),
                                  !.at = "stmia"])

\* stmia r3!, {r5}; cmp r4, r2; bcc no_wrap; mov r4, r1; adds r4, #8
stmia ==
    /\ loader.at = "stmia"
    /\ LoaderSteps([loader EXCEPT !.stored = Append(@, <<loader.r3, loader.r5>>),
                                  !.r3 = U32(loader.r3 + WordBytes),
                                  !.r4 = IF loader.r4 < r2 THEN loader.r4
                                         ELSE U32(r1 + 8),
                                  !.at = "no_wrap"])

\* no_wrap: str r4, [r1, #4]; subs r0, #4; bne wait_fifo
no_wrap ==
    /\ loader.at = "no_wrap"
    /\ LoaderSteps([loader EXCEPT !.rp = loader.r4,
                                  !.r0 = U32(loader.r0 - 4),
                                  !.at = IF U32(loader.r0 - 4) # 0 THEN "wait_fifo"
                                         ELSE "exit"])

\* exit: bkpt #0
bkpt ==
    /\ loader.at = "exit"
    /\ LoaderSteps([loader EXCEPT !.at = "halted"])

\* the host reads rp
HostReadsRp ==
    /\ loader.host = "read"
    /\ loader.sent < loader.total
    /\ LoaderSteps([loader EXCEPT !.hrp = loader.rp, !.host = "fill"])

\* the cells the host may fill, one of the ring staying empty
FreeCells(wp, rp) ==
    (FifoWords - 1) - ((CellAt(wp) - CellAt(rp) + FifoWords) % FifoWords)

\* the ring after the words sent + 1 .. sent + k are written from address a on
RECURSIVE Filled(_, _, _, _)
Filled(cells, a, sent, k) ==
    IF k = 0 THEN cells
    ELSE Filled([cells EXCEPT ![CellAt(a)] = SourceWord(sent + 1)],
                NextInRing(a), sent + 1, k - 1)

\* the address k cells after a in the ring
RECURSIVE Advanced(_, _)
Advanced(a, k) == IF k = 0 THEN a ELSE Advanced(NextInRing(a), k - 1)

\* the host writes as many words as it chooses into free cells, or finds
\* none free and reads rp again
HostFills ==
    /\ loader.host = "fill"
    /\ LET free == FreeCells(loader.wp, loader.hrp)
           left == loader.total - loader.sent
           most == IF free < left THEN free ELSE left
       IN  IF most = 0
           THEN LoaderSteps([loader EXCEPT !.host = "read"])
           ELSE \E k \in 1 .. most :
                  LoaderSteps([loader EXCEPT
                                 !.cells = Filled(@, loader.wp, loader.sent, k),
                                 !.hwp = Advanced(loader.wp, k),
                                 !.filled = k,
                                 !.host = "publish"])

\* the host moves wp past the words it wrote
HostMovesWp ==
    /\ loader.host = "publish"
    /\ LoaderSteps([loader EXCEPT !.wp = loader.hwp,
                                  !.sent = loader.sent + loader.filled,
                                  !.host = "read"])

\* the host gives up the run: it writes 0 to wp
HostAborts ==
    /\ loader.host \in {"read", "fill", "publish"}
    /\ loader.at \notin {"exit", "halted"}
    /\ LoaderSteps([loader EXCEPT !.wp = 0, !.host = "aborted"])

----------------------------------------------------------------------------
(* The driver as a state machine. *)

Banks == {CodeBank, UicrBank}

BankBase(b) == IF b = CodeBank THEN NRF52_FLASH_BASE_ADDR ELSE NRF52_UICR_BASE_ADDR

\* the machine record of the current state, at the start of a call
Machine == [flash |-> flash, config |-> nvmc_config, chip |-> chip, bank |-> bank,
            n |-> 0, log |-> << >>]

\* the caller's buffer of a write request: count bytes of value fill
Buffer(fill, count) == [i \in 0 .. (count - 1) |-> fill]
Fills == {0, 1}

\* the <<offset, count>> of the write requests, P the page size: inside one
\* page with a gap on both sides and, in the config region, past its end
WriteRequests(b) ==
    LET P == FICR_CODEPAGESIZE
    IN  IF b = CodeBank THEN {<<1, P - 2>>} ELSE {<<1, P - 2>>, <<1, P>>}

\* a wider set: also a write across the boundary of the first two pages and
\* one of two whole pages; in the config region a write of the whole page
\* and one whose offset + count wraps around in uint32_t
WideRequests(b) ==
    LET P == FICR_CODEPAGESIZE
    IN  WriteRequests(b)
        \cup (IF b = CodeBank THEN {<<P - 1, 2>>, <<0, 2 * P>>}
              ELSE {<<0, P>>, <<UintModulus - 1, 2>>})

\* the working area the target can offer: none, the loader program only,
\* the loader program and a streaming buffer
WorkAreas == {0, LoaderCodeSize, LoaderCodeSize + 2 * LoaderBufferFloor}

AccessKinds == {"wait", "cfg", "trig", "ficr", "read", "word", "load", "run"}
AccessLog(log) == SelectSeq(log, LAMBDA e : e.e \in AccessKinds)

\* the plans that differ from the fault-free plan of a call with the access
\* log given: one access fails, or every access from one on fails; one poll
\* times out, or every poll from one on does.  A call reaches the allocation
\* of the working area only when no fault before it was reported, so the
\* plans with a working area take up the faults from the allocation on and
\* the single faults before it.  A failed read of an identity register
\* comes in both kinds: the variable read into keeps its value, or is 0.
FirstAlloc(log) ==
    IF \E i \in 1 .. Len(log) : log[i].e = "alloc"
    THEN Len(AccessLog(SubSeq(log, 1, CHOOSE i \in 1 .. Len(log) :
                                        /\ log[i].e = "alloc"
                                        /\ \A j \in 1 .. (i - 1) : log[j].e # "alloc")))
    ELSE 0

FaultsAt(a, first, wa) ==
    LET slots == 0 .. (Len(a) - 1)
        late == {k \in slots : wa = 0 \/ k >= first}
        Fault(kind, k, ps) == [NoPlan EXCEPT !.kind = kind, !.at = k, !.persist = ps,
                                             !.wa = wa]
    IN  {Fault("io", k, FALSE) : k \in slots}
        \cup {Fault("io", k, TRUE) : k \in late}
        \cup {[Fault("io", k, FALSE) EXCEPT !.partial = 1] :
                k \in {j \in slots : a[j + 1].e = "run"}}
        \cup {[Fault("io", k, ps) EXCEPT !.zeroes = TRUE] :
                k \in {j \in late : a[j + 1].e = "ficr"}, ps \in BOOLEAN}
        \cup {Fault("busy", k, ps) :
                k \in {j \in late : a[j + 1].e = "wait"}, ps \in BOOLEAN}

Faults(log, wa) == FaultsAt(AccessLog(log), FirstAlloc(log), wa)

PlanOf(wa) == [NoPlan EXCEPT !.wa = wa]

\* the plans of the call Run with a working area of wa bytes: the fault-free
\* plan and, when faulty, its faults
PlansOf(Run(_), wa, faulty) ==
    {PlanOf(wa)}
    \cup (IF faulty
          THEN Faults(Run(PlanOf(wa)).m.log, wa)
          ELSE {})

NoCall == [op |-> "none", b |-> 0, offset |-> 0, count |-> 0, fill |-> 0,
           plan |-> NoPlan, res |-> ERROR_OK, log |-> << >>]

\* budget is the number of calls the command loop still makes, Unlimited
\* when it makes any number
Unlimited == 0 - 1
CanCall == pc = "idle" /\ budget # 0
Spend == budget' = IF budget = Unlimited THEN budget ELSE budget - 1

Returns(r, c) ==
    /\ flash' = r.m.flash
    /\ nvmc_config' = r.m.config
    /\ chip' = r.m.chip
    /\ bank' = r.m.bank
    /\ pc' = IF r.res = HostFault THEN "ended" ELSE "returned"
    /\ call' = [c EXCEPT !.res = r.res, !.log = r.m.log]
    /\ Spend
    /\ UNCHANGED <<requests, loader>>

\* the sector table of bank b is allocated: a call on a bank whose table is
\* NULL dereferences it and ends the process
Allocated(b) == bank[b].num_sectors = Len(bank[b].sectors)

\* the machine after flash_bank_command: nothing probed, no sector table
CreatedMachine ==
    [flash |-> [a \in FlashAddrs |-> 0],
     config |-> NRF52_NVMC_CONFIG_REN,
     chip |-> [code_page_size |-> 0, code_memory_size |-> 0,
               probed |-> [b \in Banks |-> FALSE]],
     bank |-> [b \in Banks |-> [base |-> BankBase(b), size |-> 0, num_sectors |-> 0,
                                 sectors |-> NullSectors]],
     n |-> 0, log |-> << >>]

Starts(m) ==
    /\ flash = m.flash
    /\ nvmc_config = m.config
    /\ chip = m.chip
    /\ bank = m.bank
    /\ pc = "idle"
    /\ call = NoCall

\* the write requests the host makes of the driver
BaseRequests == [b \in Banks |-> WriteRequests(b)]

Init ==
    /\ Starts(CreatedMachine)
    /\ budget = Unlimited
    /\ requests = BaseRequests
    /\ loader = NoLoader

Probe ==
    /\ CanCall
    /\ \E b \in Banks :
         \E p \in {[NoPlan EXCEPT !.kind = "calloc"]}
                    \cup PlansOf(LAMBDA q : nrf52_probe(Machine, q, b), 0, TRUE) :
            Returns(nrf52_probe(Machine, p, b),
                    [NoCall EXCEPT !.op = "probe", !.b = b, !.plan = p])

AutoProbe ==
    /\ CanCall
    /\ \E b \in Banks :
         \E p \in PlansOf(LAMBDA q : nrf52_auto_probe(Machine, q, b), 0, TRUE) :
            Returns(nrf52_auto_probe(Machine, p, b),
                    [NoCall EXCEPT !.op = "auto_probe", !.b = b, !.plan = p])

\* the flash core calls erase with 0 <= first <= last < num_sectors
Erase ==
    /\ CanCall
    /\ \E b \in Banks :
         /\ chip.probed[b] /\ Allocated(b)
         /\ \E first \in 0 .. (bank[b].num_sectors - 1) :
              \E last \in first .. (bank[b].num_sectors - 1) :
                 \E p \in PlansOf(LAMBDA q : nrf52_erase(Machine, q, b, first, last),
                                  0, TRUE) :
                    Returns(nrf52_erase(Machine, p, b, first, last),
                            [NoCall EXCEPT !.op = "erase", !.b = b, !.offset = first,
                                           !.count = last, !.plan = p])

\* a call whose access fails is made with the buffer of fill 0; a write to
\* the code bank with a page size of 0 divides by it and ends the process
Write ==
    /\ CanCall
    /\ \E b \in Banks :
         /\ chip.probed[b] /\ Allocated(b)
         /\ b = CodeBank => chip.code_page_size # 0
         /\ \E rq \in requests[b], fill \in Fills, wa \in WorkAreas :
              \E p \in PlansOf(LAMBDA q : nrf52_write(Machine, q, b, Buffer(fill, rq[2]),
                                                      rq[1], rq[2]), wa, fill = 0)
                        \cup (IF b = UicrBank /\ rq[1] + rq[2] > chip.code_page_size
                              THEN {[PlanOf(wa) EXCEPT !.oob = o] : o \in OutOfBounds}
                              ELSE {}) :
                 Returns(nrf52_write(Machine, p, b, Buffer(fill, rq[2]), rq[1], rq[2]),
                         [NoCall EXCEPT !.op = "write", !.b = b, !.offset = rq[1],
                                        !.count = rq[2], !.fill = fill, !.plan = p])

\* a bank not yet probed gets its sector table from the probe of the call
MassErase ==
    /\ CanCall
    /\ \A b \in Banks : chip.probed[b] => Allocated(b)
    /\ \E p \in PlansOf(LAMBDA q : nrf52_handle_mass_erase_command(Machine, q),
                         0, TRUE) :
          Returns(nrf52_handle_mass_erase_command(Machine, p),
                  [NoCall EXCEPT !.op = "mass_erase", !.plan = p])

\* nrf52_wait_for_nvmc on its own, against an NVMC that answers busy
\* readyAfter times and a link that fails read failRead
PollReadyAfter == {0, 1, PollTimeout - 1, PollTimeout, PollTimeout + 1, NeverReady}
PollFailRead == {-1, 0, 1, PollTimeout - 1, PollTimeout, PollTimeout + 1}

Poll ==
    /\ CanCall
    /\ \E readyAfter \in PollReadyAfter, failRead \in PollFailRead :
         LET Polled(r) ==
               /\ pc' = "returned"
               /\ call' = [NoCall EXCEPT !.op = "wait", !.offset = readyAfter,
                                         !.count = failRead, !.res = r.res,
                                         !.log = <<Ev("wait", r.reads, r.sleeps, r.res)>>]
         IN  Polled(nrf52_wait_for_nvmc_poll(readyAfter, failRead))
    /\ Spend
    /\ UNCHANGED <<flash, nvmc_config, chip, bank, requests, loader>>

\* nrf52_find_sector_by_address on its own; call.count is the sector found
\* (from 1), 0 for NULL
FindAddresses(b) ==
    (0 .. (bank[b].size + FICR_CODEPAGESIZE))
    \cup ((NRF52_UICR_BASE_ADDR - 1) .. (NRF52_UICR_BASE_ADDR + FICR_CODEPAGESIZE))
    \cup {UintModulus - 1}

FindSector ==
    /\ CanCall
    /\ \E b \in Banks :
         /\ Allocated(b)
         /\ \E address \in FindAddresses(b) :
              LET Found(s) ==
                    /\ pc' = "returned"
                    /\ call' = [NoCall EXCEPT
                                  !.op = "find", !.b = b, !.offset = address, !.count = s,
                                  !.res = IF s = 0 THEN ERROR_FLASH_SECTOR_INVALID
                                          ELSE ERROR_OK]
              IN  Found(nrf52_find_sector_by_address(Machine, b, address))
    /\ Spend
    /\ UNCHANGED <<flash, nvmc_config, chip, bank, requests, loader>>

\* the finished call is handed back to the command loop
Return ==
    /\ pc = "returned"
    /\ pc' = "idle"
    /\ call' = NoCall
    /\ UNCHANGED <<flash, nvmc_config, chip, bank, budget, requests, loader>>

Next ==
    \/ Probe
    \/ AutoProbe
    \/ Erase
    \/ Write
    \/ MassErase
    \/ Poll
    \/ FindSector
    \/ Return

\* any number of calls
Spec == Init /\ [][Next]_vars

\* a command loop that makes MaxCalls calls
InitCalls ==
    /\ Starts(CreatedMachine)
    /\ budget = MaxCalls
    /\ requests = BaseRequests
    /\ loader = NoLoader
SpecCalls == InitCalls /\ [][Next]_vars

\* one call on two probed banks whose sectors carry any erase and protection
\* status, as the flash core hands them to the driver: its blank check marks
\* a sector erased when the flash of the sector is blank.  The host makes
\* the wider set of write requests.
StatusValues == {StatusUnknown, StatusClear, StatusSet}

WithStatus(sectors, er, pr) ==
    [i \in 1 .. Len(sectors) |->
        [sectors[i] EXCEPT !.is_erased = er[i], !.is_protected = pr[i]]]

\* the machine after a probe of each bank
ProbedMachine ==
    nrf52_probe(nrf52_probe(CreatedMachine, NoPlan, CodeBank).m, NoPlan, UicrBank).m

\* the flash whose sectors marked erased are blank
BlankWhereErased(fl, er, ue) ==
    [a \in FlashAddrs |->
        IF a \in UicrAddrs
        THEN (IF ue = StatusSet THEN ErasedByte ELSE fl[a])
        ELSE (IF er[(a \div FICR_CODEPAGESIZE) + 1] = StatusSet THEN ErasedByte
              ELSE fl[a])]

InitProt ==
    /\ \E er \in [1 .. NumPages -> StatusValues], pr \in [1 .. NumPages -> StatusValues],
          ue \in StatusValues, up \in StatusValues :
          Starts([ProbedMachine EXCEPT
                    !.flash = BlankWhereErased(@, er, ue),
                    !.bank[CodeBank].sectors = WithStatus(@, er, pr),
                    !.bank[UicrBank].sectors = WithStatus(@, <<ue>>, <<up>>)])
    /\ budget = 1
    /\ requests = [b \in Banks |-> WideRequests(b)]
    /\ loader = NoLoader

SpecProt == InitProt /\ [][Next]_vars

\* one call on two probed banks whose sectors carry any erase status and
\* the protection status the probe gave them
InitWrite ==
    /\ \E er \in [1 .. NumPages -> StatusValues], ue \in StatusValues :
          Starts([ProbedMachine EXCEPT
                    !.flash = BlankWhereErased(@, er, ue),
                    !.bank[CodeBank].sectors =
                        WithStatus(@, er, [i \in 1 .. NumPages |-> @[i].is_protected]),
                    !.bank[UicrBank].sectors =
                        WithStatus(@, <<ue>>, <<@[1].is_protected>>)])
    /\ budget = 1
    /\ requests = [b \in Banks |-> WideRequests(b)]
    /\ loader = NoLoader

SpecWrite == InitWrite /\ [][Next]_vars

\* one run of the loader, started by a bulk write of 1 .. StreamWords words
\* at the start of the code region, and the host of the run
InitFifo ==
    /\ Starts(ProbedMachine)
    /\ budget = 0
    /\ requests = BaseRequests
    /\ \E n \in 1 .. StreamWords :
          loader = StartedLoader(NRF52_FLASH_BASE_ADDR, n * WordBytes)

NextFifo ==
    \/ wait_fifo
    \/ ldr_rp
    \/ ldmia
    \/ stmia
    \/ no_wrap
    \/ bkpt
    \/ HostReadsRp
    \/ HostFills
    \/ HostMovesWp
    \/ HostAborts

SpecFifo == InitFifo /\ [][NextFifo]_vars

----------------------------------------------------------------------------
(* Reading a finished call. *)

Returned(op) == pc = "returned" /\ call.op = op

\* the call of op that this step makes
Calls(op) == pc = "idle" /\ pc' = "returned" /\ call'.op = op

LogHas(e) == \E i \in 1 .. Len(call.log) : call.log[i].e = e

\* the bytes [offset, offset + count) of a request lie in one page
InOnePage(offset, count) ==
    offset \div FICR_CODEPAGESIZE = (offset + count - 1) \div FICR_CODEPAGESIZE

\* the finished call is an erase: the erase of a sector range or the mass erase
ErasesReturned == pc = "returned" /\ call.op \in {"erase", "mass_erase"}

\* the sectors (from 1) of its bank that the finished erase or write touches
Touched ==
    IF call.op = "erase" THEN (call.offset + 1) .. (call.count + 1)
    ELSE {s \in 1 .. bank[call.b].num_sectors :
            /\ bank[call.b].sectors[s].offset < call.offset + call.count
            /\ call.offset < bank[call.b].sectors[s].offset + bank[call.b].sectors[s].size}

----------------------------------------------------------------------------
(* C1.  Round trip of a code-region write: after a write(buffer, offset,   *)
(* count) that lies inside one page and returns success, whatever calls    *)
(* came before it, every byte of the page outside [offset, offset + count) *)
(* is what it was before the write and every byte inside is the caller's.  *)

C1_RoundTrip ==
    [][(Calls("write") /\ call'.b = CodeBank /\ call'.res = ERROR_OK
          /\ InOnePage(call'.offset, call'.count))
       => \A a \in CodeAddrs :
            PageOf(a) = PageOf(call'.offset)
            => flash'[a] = IF a >= call'.offset /\ a < call'.offset + call'.count
                           THEN Buffer(call'.fill, call'.count)[a - call'.offset]
                           ELSE flash[a]]_vars

----------------------------------------------------------------------------
(* C2.  A failed write never leaves the controller armed: when a write to  *)
(* either region returns an error, the read-only transition was attempted  *)
(* during the call and NVMC.CONFIG holds neither write-enable nor          *)
(* erase-enable.                                                           *)

C2_FailedWriteDisarmed ==
    (Returned("write") /\ call.res # ERROR_OK)
    => /\ LogHas("read_only")
       /\ nvmc_config \notin {NRF52_NVMC_CONFIG_WEN, NRF52_NVMC_CONFIG_EEN}

----------------------------------------------------------------------------
(* C3.  Protected-sector guard: an erase or a write, in either region and  *)
(* whatever the erase status, that touches a sector whose protection       *)
(* status is "protected" returns ERROR_FAIL with NVMC.CONFIG read-only.    *)
(* Stated for the calls whose target accesses all succeed.                 *)

C3_ProtectedGuard ==
    (/\ pc = "returned"
     /\ call.op \in {"erase", "write"}
     /\ call.plan.kind = "none"
     /\ \E s \in Touched : bank[call.b].sectors[s].is_protected = StatusSet)
    => /\ call.res = ERROR_FAIL
       /\ nvmc_config = NRF52_NVMC_CONFIG_REN

----------------------------------------------------------------------------
(* C4.  The ready poll reads NVMC.READY at most 100 times in one call,     *)
(* sleeps between consecutive reads, and when the flag never reads ready   *)
(* it fails after exactly 100 reads.                                       *)

C4_PollBudget ==
    Returned("wait")
    => /\ call.log[1].a <= PollTimeout
       /\ call.log[1].b >= call.log[1].a - 1
       /\ (call.offset = NeverReady /\ call.count = -1)
          => (call.res = ERROR_FLASH_BUSY /\ call.log[1].a = PollTimeout)

----------------------------------------------------------------------------
(* C5.  As claimed: timeout and I/O failure of the ready poll are distinct *)
(* outcomes.  A poll whose reads all succeed and never read ready returns  *)
(* ERROR_FLASH_BUSY and never ERROR_TARGET_IO, and so does every erase,    *)
(* write or mass erase in which such a poll is made; a poll in which a     *)
(* read fails returns ERROR_TARGET_IO at that read, polling no further,    *)
(* and never ERROR_FLASH_BUSY, and so does the call in which it is made.   *)

\* the access of the finished call that the plan's fault hits
FaultedAccess == AccessLog(call.log)[call.plan.at + 1]

\* the poll on its own, its log entry holding the number of reads made: a
\* timeout is ERROR_FLASH_BUSY, the result is ERROR_TARGET_IO exactly when
\* the failing read was made, and that read is then the last
PollDistinct ==
    Returned("wait")
    => /\ (call.count = -1 /\ call.offset = NeverReady) => call.res = ERROR_FLASH_BUSY
       /\ call.res = ERROR_IO <=> (call.count >= 0 /\ call.log[1].a = call.count + 1)
       /\ call.res = ERROR_FLASH_BUSY
          => /\ call.count = -1 \/ call.log[1].a <= call.count
             /\ call.log[1].a <= call.offset

BufferStarved ==
    \E i \in 1 .. Len(call.log) :
        call.log[i].e = "alloc" /\ call.log[i].b = 1 /\ call.log[i].r = ERROR_FAIL

----------------------------------------------------------------------------
(* C6.  Generic erase always disarms.  As claimed: once erase-enable has   *)
(* succeeded the generic erase performs the read-only transition before    *)
(* returning, whether the trigger write succeeded or failed, and no erase  *)
(* call returns with NVMC.CONFIG at erase-enable.                          *)

EraseEnabledAt(i) ==
    /\ call.log[i].e = "cfg"
    /\ call.log[i].a = NRF52_NVMC_CONFIG_EEN
    /\ call.log[i].r = ERROR_OK

\* after every successful erase-enable come the trigger write and then the
\* read-only transition
DisarmAttempted ==
    \A i \in 1 .. Len(call.log) :
        EraseEnabledAt(i)
        => /\ i + 2 <= Len(call.log)
           /\ call.log[i + 1].e = "trig"
           /\ call.log[i + 2].e = "read_only"

\* the last write to NVMC.CONFIG in the call is a successful write of
\* read-only
LastConfigIsReadOnly ==
    \E i \in 1 .. Len(call.log) :
        /\ call.log[i].e = "cfg"
        /\ call.log[i].a = NRF52_NVMC_CONFIG_REN
        /\ call.log[i].r = ERROR_OK
        /\ \A j \in (i + 1) .. Len(call.log) : call.log[j].e # "cfg"

C6_EraseAlwaysDisarms ==
    ErasesReturned
    => /\ DisarmAttempted
       /\ nvmc_config # NRF52_NVMC_CONFIG_EEN

(* C6, amended.  Once erase-enable has succeeded the generic erase         *)
(* performs the read-only transition before returning, whether the trigger *)
(* write succeeded or failed; NVMC.CONFIG is read-only when the call       *)
(* returns if that transition succeeded, and so whenever the erase call    *)
(* returns success.                                                        *)

C6_EraseDisarms ==
    ErasesReturned
    => /\ DisarmAttempted
       /\ LastConfigIsReadOnly => nvmc_config = NRF52_NVMC_CONFIG_REN
       /\ call.res = ERROR_OK => nvmc_config = NRF52_NVMC_CONFIG_REN

C6_Witness ==
    /\ Returned("erase")
    /\ nvmc_config = NRF52_NVMC_CONFIG_REN
    /\ \E i \in 1 .. (Len(call.log) - 1) :
          /\ call.log[i].e = "trig"
          /\ call.log[i].r = ERROR_IO
          /\ call.log[i + 1].e = "read_only"

----------------------------------------------------------------------------
(* C7.  A failed erase-trigger write is reported: when the write to the    *)
(* erase-trigger register fails, the erase or mass erase that made it      *)
(* returns ERROR_TARGET_IO and not success.                                *)

C7_TriggerFailureReported ==
    (/\ ErasesReturned
     /\ \E i \in 1 .. Len(call.log) :
           call.log[i].e = "trig" /\ call.log[i].r = ERROR_IO)
    => call.res = ERROR_IO

----------------------------------------------------------------------------
(* C8.  A mass erase that returns success leaves every sector of the code  *)
(* bank and the one sector of the config bank with erase status "erased";  *)
(* a probe changes sector bookkeeping and chip state only, never the flash *)
(* contents or NVMC.CONFIG.                                                *)

AllMarkedErased(bk) ==
    /\ bk.num_sectors >= 1
    /\ Len(bk.sectors) = bk.num_sectors
    /\ \A i \in 1 .. bk.num_sectors : bk.sectors[i].is_erased = StatusSet

C8_MassEraseThenProbe ==
    [][/\ (Calls("mass_erase") /\ call'.res = ERROR_OK)
          => /\ AllMarkedErased(bank'[CodeBank])
             /\ AllMarkedErased(bank'[UicrBank])
             /\ bank'[UicrBank].num_sectors = 1
       /\ (Calls("probe") \/ Calls("auto_probe"))
          => /\ flash' = flash
             /\ nvmc_config' = nvmc_config]_vars

\* a probe of the code bank has returned after a mass erase: the flash is
\* blank, the config sector still marked erased, the code sectors unknown
C8_Witness ==
    /\ Returned("probe")
    /\ call.b = CodeBank
    /\ call.res = ERROR_OK
    /\ \A a \in FlashAddrs : flash[a] = ErasedByte
    /\ AllMarkedErased(bank[UicrBank])
    /\ \A i \in 1 .. bank[CodeBank].num_sectors :
          bank[CodeBank].sectors[i].is_erased = StatusUnknown

----------------------------------------------------------------------------
(* C9.  Sector map: after a successful probe of a bank, first or repeated, *)
(* its sectors start at offset 0, each begins where the one before ends,   *)
(* and their sizes sum to the size of the bank; the code bank has          *)
(* size / page size sectors, the config bank one sector of one page.       *)

RECURSIVE SumSizes(_, _)
SumSizes(sectors, n) ==
    IF n = 0 THEN 0 ELSE sectors[n].size + SumSizes(sectors, n - 1)

SectorMap(b) ==
    LET bk == bank[b]
    IN  /\ Len(bk.sectors) = bk.num_sectors
        /\ bk.num_sectors >= 1
        /\ bk.sectors[1].offset = 0
        /\ \A i \in 1 .. bk.num_sectors : bk.sectors[i].size > 0
        /\ \A i \in 1 .. (bk.num_sectors - 1) :
              bk.sectors[i + 1].offset = bk.sectors[i].offset + bk.sectors[i].size
        /\ SumSizes(bk.sectors, bk.num_sectors) = bk.size
        /\ b = CodeBank
           => /\ bk.size = chip.code_memory_size
              /\ bk.num_sectors * chip.code_page_size = bk.size
              /\ bk.num_sectors = FICR_CODESIZE
        /\ b = UicrBank
           => /\ bk.num_sectors = 1
              /\ bk.sectors[1].size = chip.code_page_size

C9_SectorMap ==
    (Returned("probe") /\ call.res = ERROR_OK) => SectorMap(call.b)

\* a repeated probe of the code bank: its flash has been erased before
C9_Witness ==
    /\ Returned("probe")
    /\ call.res = ERROR_OK
    /\ call.b = CodeBank
    /\ bank[CodeBank].num_sectors = NumPages
    /\ \E a \in CodeAddrs : flash[a] = ErasedByte

----------------------------------------------------------------------------
(* C10.  As claimed: for each bank and every address,                      *)
(* nrf52_find_sector_by_address returns a sector if and only if the        *)
(* address lies in [base, base + size) of the bank, and NULL otherwise.    *)

C10_FindByAddress ==
    Returned("find")
    => (call.count # 0
        <=> /\ bank[call.b].base <= call.offset
            /\ call.offset < bank[call.b].base + bank[call.b].size)

(* C10, amended.  For each bank and every address,                         *)
(* nrf52_find_sector_by_address returns the first sector whose range       *)
(* [offset, offset + chip page size) holds the address, the offsets being  *)
(* relative to the bank, and NULL when there is none.  While the chip page *)
(* size is the size of the bank's sectors it returns a sector if and only  *)
(* if the address, taken as an offset into the bank, lies in [0, size);    *)
(* for the code bank, whose base is 0, that is [base, base + size).        *)

\* sector i (from 1) of bank b holds the address by the chip's page size
HoldsByPage(b, i, address) ==
    /\ bank[b].sectors[i].offset <= address
    /\ address < bank[b].sectors[i].offset + chip.code_page_size

\* the page size read last is the size the bank's sectors were made with
PageSizeOfSectors(b) ==
    \A i \in 1 .. bank[b].num_sectors : bank[b].sectors[i].size = chip.code_page_size

C10_FindByOffset ==
    Returned("find")
    => /\ call.count # 0
          <=> \E i \in 1 .. bank[call.b].num_sectors : HoldsByPage(call.b, i, call.offset)
       /\ call.count # 0
          => /\ HoldsByPage(call.b, call.count, call.offset)
             /\ \A i \in 1 .. (call.count - 1) : ~HoldsByPage(call.b, i, call.offset)
       /\ PageSizeOfSectors(call.b)
          => /\ call.count # 0
                <=> (0 <= call.offset /\ call.offset < bank[call.b].size)
             /\ call.b = CodeBank
                => (call.count # 0
                    <=> /\ bank[call.b].base <= call.offset
                        /\ call.offset < bank[call.b].base + bank[call.b].size)

C10_Witness ==
    /\ Returned("find")
    /\ call.b = UicrBank
    /\ call.count = 1
    /\ call.offset < bank[UicrBank].base

----------------------------------------------------------------------------
(* Reading the log of a finished call. *)

\* the successful erase triggers of the page at offset in the code bank
ErasesOf(log, offset) ==
    Len(SelectSeq(log, LAMBDA e : /\ e.e = "trig"
                                  /\ e.a = NRF52_NVMC_ERASEPAGE_ADDR
                                  /\ e.v = offset
                                  /\ e.r = ERROR_OK))

\* the reads of target memory, in order, as <<address, length>>
ReadsOf(log) ==
    LET reads == SelectSeq(log, LAMBDA e : e.e = "read")
    IN  [i \in 1 .. Len(reads) |-> <<reads[i].a, reads[i].b>>]

\* the bytes handed to the flash: words of the slow path and the loader run
RECURSIVE BytesFlashed(_, _)
BytesFlashed(log, n) ==
    IF n = 0 THEN 0
    ELSE BytesFlashed(log, n - 1)
         + (IF log[n].e = "word" THEN WordBytes
            ELSE IF log[n].e = "run" THEN log[n].v ELSE 0)

----------------------------------------------------------------------------
(* C11.  As claimed: with a page size of 4096 and a code region of two     *)
(* pages of unknown erase status, a write of 10 bytes at offset 4090       *)
(* erases each page once, reads a leading gap of 4090 bytes of page 0 and  *)
(* a trailing gap of 4086 bytes of page 1, flashes 8192 bytes and ends     *)
(* with NVMC.CONFIG read-only.                                             *)

\* the write across the first page boundary of the model, made of two pages
\* of unknown status that are not protected, every access succeeding
SpansTwoPages ==
    /\ Calls("write")
    /\ call'.b = CodeBank
    /\ call'.res = ERROR_OK
    /\ call'.offset < FICR_CODEPAGESIZE
    /\ call'.offset + call'.count > FICR_CODEPAGESIZE
    /\ call'.offset + call'.count < 2 * FICR_CODEPAGESIZE
    /\ call'.plan.kind = "none"
    /\ \A i \in 1 .. 2 : bank[CodeBank].sectors[i].is_erased = StatusUnknown

\* what the call then does, post being the length of the trailing gap
TwoPageWrite(post) ==
    /\ ErasesOf(call'.log, 0) = 1
    /\ ErasesOf(call'.log, FICR_CODEPAGESIZE) = 1
    /\ ReadsOf(call'.log) = << <<0, call'.offset>>,
                               <<call'.offset + call'.count, post>> >>
    /\ BytesFlashed(call'.log, Len(call'.log)) = 2 * FICR_CODEPAGESIZE
    /\ nvmc_config' = NRF52_NVMC_CONFIG_REN

----------------------------------------------------------------------------
(* C12.  As claimed: for every 32-bit offset and count, a write to the     *)
(* config region whose offset + count, as a mathematical sum, exceeds the  *)
(* region size is rejected before any target memory is read, any sector    *)
(* is erased, any byte of the scratch image is overwritten or any word is  *)
(* written.                                                                *)

\* a write to the config region that runs past its end
OverrunsConfig ==
    /\ pc = "idle"
    /\ pc' # "idle"
    /\ call'.op = "write"
    /\ call'.b = UicrBank
    /\ call'.offset + call'.count > chip.code_page_size

C12_OverrunRejected ==
    [][OverrunsConfig
        => /\ pc' = "returned"
           /\ call'.res = ERROR_FAIL
           /\ call'.log = << >>
           /\ UNCHANGED <<flash, nvmc_config, bank>>]_vars

----------------------------------------------------------------------------
(* C13.  As claimed: a write to the config region at offset 0 of as many   *)
(* bytes as the page reads no target memory, erases the config sector      *)
(* exactly once and makes exactly one bulk write of one full page.         *)

\* the successful erase triggers of the config sector
ErasesOfConfig(log) ==
    Len(SelectSeq(log, LAMBDA e : /\ e.e = "trig"
                                  /\ e.a = NRF52_NVMC_ERASEUICR_ADDR
                                  /\ e.r = ERROR_OK))

\* the bulk writes: each begins by asking for the region of the loader
BulkWrites(log) ==
    Len(SelectSeq(log, LAMBDA e : e.e = "alloc" /\ e.b = 0))

\* the full overwrite of the config region, every access succeeding
FullOverwrite ==
    /\ Calls("write")
    /\ call'.b = UicrBank
    /\ call'.res = ERROR_OK
    /\ call'.plan.kind = "none"
    /\ call'.offset = 0
    /\ call'.count = chip.code_page_size

----------------------------------------------------------------------------
(* C14.  As claimed: a failed scratch allocation is never an error for the *)
(* caller.  When the region of the loader cannot be allocated, or the      *)
(* streaming buffer cannot be allocated at any size down to the floor, the *)
(* bulk write writes the full byte count word by word and returns success  *)
(* if those writes succeed.                                                *)

\* an allocation of the call failed
AllocationFailed(log) ==
    \E i \in 1 .. Len(log) : log[i].e = "alloc" /\ log[i].r # ERROR_OK

\* the word writes of the slow path that succeeded
WordsWritten(log) ==
    Len(SelectSeq(log, LAMBDA e : e.e = "word" /\ e.r = ERROR_OK))

\* the bytes the bulk write of the call was given: whole pages
BytesOfPages ==
    IF call.b = UicrBank THEN chip.code_page_size
    ELSE LastPageOffset(chip.code_page_size, call.offset, call.count)
          - FirstPageOffset(chip.code_page_size, call.offset)

C14_AllocationFailureFallsBack ==
    (/\ Returned("write")
     /\ call.plan.kind = "none"
     /\ AllocationFailed(call.log))
        => /\ call.res = ERROR_OK
           /\ WordsWritten(call.log) * WordBytes = BytesOfPages

----------------------------------------------------------------------------
(* C15.  As claimed: on every exit path of a bulk write (success, failed   *)
(* download of the loader, failed allocation of the streaming buffer,      *)
(* failed run of the loader) every scratch region acquired during the call *)
(* has been released exactly once: as many regions are held after the     *)
(* call as before it.                                                      *)

\* the regions of kind k (0 the loader, 1 the streaming buffer) acquired
Acquired(log, k) ==
    Len(SelectSeq(log, LAMBDA e : e.e = "alloc" /\ e.b = k /\ e.r = ERROR_OK))

\* the regions of kind k released
Released(log, k) ==
    Len(SelectSeq(log, LAMBDA e : e.e = "free" /\ e.b = k))

C15_ScratchPaired ==
    Returned("write")
        => \A k \in {0, 1} : Acquired(call.log, k) = Released(call.log, k)

----------------------------------------------------------------------------
(* C16.  When the region of the loader cannot be allocated, a bulk write   *)
(* of n bytes, n a multiple of 4, makes exactly n / 4 word writes to       *)
(* consecutive 4-byte-aligned addresses in increasing order, each preceded *)
(* by a ready-wait of the NVMC, loads no program, acquires no scratch      *)
(* region, and stops at the first word write or ready-wait that fails,     *)
(* returning its error; for n = 16 these are 4 word writes.                *)

\* the accesses of the slow path in log: those after the failed allocation
\* of the loader region, up to the return to read-only
SlowPathOf(log) ==
    LET ia == CHOOSE i \in 1 .. Len(log) : log[i].e = "alloc"
        after == SubSeq(log, ia + 1, Len(log))
        stops == {i \in 1 .. Len(after) : after[i].e = "read_only"}
    IN  IF stops = {} THEN after
        ELSE SubSeq(after, 1, (CHOOSE i \in stops : \A j \in stops : i <= j) - 1)

\* the accesses before the bulk write
BeforeBulk(log) ==
    SubSeq(log, 1, (CHOOSE i \in 1 .. Len(log) : log[i].e = "alloc") - 1)

\* path is the slow path of a write of n bytes at start that returned res
\* after the accesses of before
IsSlowPath(before, path, start, n, res) ==
    /\ \A j \in 1 .. Len(path) :
          /\ path[j].e = (IF j % 2 = 1 THEN "word" ELSE "wait")
          /\ j % 2 = 1 => /\ path[j].a = start + WordBytes * ((j - 1) \div 2)
                           /\ path[j].a % WordBytes = 0
          /\ j < Len(path) => path[j].r = ERROR_OK
    /\ Len(before) >= 2
    /\ before[Len(before) - 1].e = "wait"
    /\ before[Len(before) - 1].r = ERROR_OK
    /\ IF Len(path) > 0 /\ path[Len(path)].r # ERROR_OK
       THEN res = path[Len(path)].r
       ELSE Len(path) = 2 * (n \div WordBytes)

\* the bulk write of 16 bytes at address 0 with no working area, after the
\* ready-wait of the write-enable
SlowWriteOf16 ==
    LET enabled == nrf52_nvmc_write_enable(ProbedMachine, NoPlan)
        done == nrf52_ll_flash_write(enabled.m, NoPlan, 0, Buffer(0, 16), 16)
        path == SlowPathOf(done.m.log)
    IN  /\ IsSlowPath(BeforeBulk(done.m.log), path, 0, 16, done.res)
        /\ done.res = ERROR_OK
        /\ WordsWritten(path) = 4
        /\ WordsWritten(done.m.log) = 4

\* the first address of the bulk write of the call
StartOfPages ==
    IF call.b = UicrBank THEN NRF52_UICR_BASE_ADDR
    ELSE FirstPageOffset(chip.code_page_size, call.offset)

\* the call made a bulk write with no working area on the target
SlowCall ==
    /\ Returned("write")
    /\ call.plan.wa = 0
    /\ \E i \in 1 .. Len(call.log) : call.log[i].e = "alloc"

C16_SlowPath ==
    /\ SlowWriteOf16
    /\ (SlowCall
         => /\ IsSlowPath(BeforeBulk(call.log), SlowPathOf(call.log), StartOfPages,
                          BytesOfPages, call.res)
            /\ \A i \in 1 .. Len(call.log) : call.log[i].e \notin {"load", "run", "free"}
            /\ \A k \in {0, 1} : Acquired(call.log, k) = 0)

\* a slow write of two pages has returned: two word writes
C16_Witness ==
    /\ SlowCall
    /\ call.res = ERROR_OK
    /\ BytesOfPages = 2 * WordBytes
    /\ WordsWritten(SlowPathOf(call.log)) = 2

----------------------------------------------------------------------------
(* C17.  In the page writer every page of [start, end) whose erase status  *)
(* is not 'erased' is erased exactly once (its page erase is run once) and *)
(* marked erased, every page whose status is 'erased' is not erased, and   *)
(* all these erases are over before write mode is enabled and before the   *)
(* first word of the buffer is written.                                    *)

\* the page erases run for the page at offset: the writes of its offset to
\* ERASEPAGE
EraseRuns(log, offset) ==
    Len(SelectSeq(log, LAMBDA e : /\ e.e = "trig"
                                  /\ e.a = NRF52_NVMC_ERASEPAGE_ADDR
                                  /\ e.v = offset))

\* the places in log of the accesses that belong to an erase
ErasePlaces(log) ==
    {i \in 1 .. Len(log) :
        \/ log[i].e = "trig"
        \/ log[i].e = "cfg" /\ log[i].a = NRF52_NVMC_CONFIG_EEN}

\* the places in log where write mode is enabled or the buffer is written
WritePlaces(log) ==
    {i \in 1 .. Len(log) :
        \/ log[i].e = "cfg" /\ log[i].a = NRF52_NVMC_CONFIG_WEN
        \/ log[i].e \in {"alloc", "load", "word", "run"}}

\* the sectors of the code bank that the pages of the call cover
PagesOfCall(c) ==
    {i \in 1 .. Len(bank[CodeBank].sectors) :
        /\ bank[CodeBank].sectors[i].offset
              >= FirstPageOffset(chip.code_page_size, c.offset)
        /\ bank[CodeBank].sectors[i].offset
              < LastPageOffset(chip.code_page_size, c.offset, c.count)}

\* a write to the code region whose page writer came to enable write mode
ReachesWriteMode ==
    /\ Calls("write")
    /\ call'.b = CodeBank
    /\ WritePlaces(call'.log) # {}

----------------------------------------------------------------------------
(* C18.  As claimed: running beside the host, the loader never takes a     *)
(* word from the ring while its read pointer equals the write pointer of   *)
(* the host, takes the words in the order the host wrote them, stores each *)
(* at the next 4-byte-aligned destination, wraps its read pointer to the   *)
(* first cell of the data area when it comes to the end of the buffer, and *)
(* comes to its exit breakpoint only after the bytes left have been        *)
(* counted down to zero.                                                   *)

\* the cells of the data area
RingAddrs == {fifo_start + i * WordBytes : i \in 0 .. (FifoWords - 1)}

\* what the loader takes and stores
FifoDrain ==
    /\ loader.at = "ldmia"
         => /\ loader.rp # loader.wp
            /\ loader.r4 = loader.rp
            /\ Len(loader.stored) < loader.sent
            /\ loader.cells[CellAt(loader.r4)] = SourceWord(Len(loader.stored) + 1)
    /\ \A i \in 1 .. Len(loader.stored) :
          /\ loader.stored[i] = <<NRF52_FLASH_BASE_ADDR + (i - 1) * WordBytes,
                                  SourceWord(i)>>
          /\ loader.stored[i][1] % WordBytes = 0
    /\ loader.at # "none" => loader.rp \in RingAddrs
    /\ loader.at = "no_wrap" => loader.r4 \in RingAddrs
    /\ loader.at = "no_wrap" /\ loader.rp = r2 - WordBytes => loader.r4 = fifo_start

----------------------------------------------------------------------------
(* C19.  Erase-status soundness: in every state reached by any sequence of *)
(* probe, erase, write and mass erase calls, any of whose accesses may     *)
(* fail, a sector whose erase status is 'erased' has blank flash.          *)

\* the flash of sector i of bank b is blank
SectorBlank(b, i) ==
    \A a \in FlashAddrs :
        (/\ a >= bank[b].base + bank[b].sectors[i].offset
         /\ a < bank[b].base + bank[b].sectors[i].offset + bank[b].sectors[i].size)
            => flash[a] = ErasedByte

C19_ErasedIsBlank ==
    \A b \in Banks : \A i \in 1 .. Len(bank[b].sectors) :
        bank[b].sectors[i].is_erased = StatusSet => SectorBlank(b, i)

----------------------------------------------------------------------------
(* C20.  No partial destruction on a rejected range: when the page writer  *)
(* fails over several pages with invalid-sector or protected-sector        *)
(* because of some page of the range, no page of the range has been        *)
(* erased and no erase status has changed: the flash is what it was before *)
(* the call.                                                               *)

\* the page writer of a write to the code region refused a page: it found
\* no sector for it, or a protected one, every access succeeding
RangeRejected ==
    /\ Calls("write")
    /\ call'.b = CodeBank
    /\ call'.plan.kind = "none"
    /\ call'.res \in {ERROR_FLASH_SECTOR_INVALID, ERROR_FAIL}

C20_RejectedRangeUntouched ==
    [][RangeRejected
        => /\ flash' = flash
           /\ bank' = bank
           /\ \A i \in 1 .. Len(call'.log) : call'.log[i].e # "trig"]_vars

----------------------------------------------------------------------------
(* C21.  Mode guard: in every execution a data word is written to flash,   *)
(* by the slow path or by a run of the loader, only while NVMC.CONFIG      *)
(* holds write-enable, and an erase-trigger register is written only while *)
(* it holds erase-enable; no access that modifies the flash is made after  *)
(* a mode transition that failed or timed out.                             *)

\* the accesses that modify the flash: a trigger write, a word of the slow
\* path, a run of the loader
ModifiesFlash(e) == e.e \in {"trig", "word", "run"}

\* a ready-wait or a write to CONFIG that failed or timed out
FailedTransition(e) == e.e \in {"wait", "cfg"} /\ e.r # ERROR_OK

C21_ModeGuard ==
    \A j \in 1 .. Len(call.log) :
        /\ call.log[j].e \in {"word", "run"} => call.log[j].b = NRF52_NVMC_CONFIG_WEN
        /\ call.log[j].e = "trig" => call.log[j].b = NRF52_NVMC_CONFIG_EEN
        /\ ModifiesFlash(call.log[j])
             => \A i \in 1 .. (j - 1) : ~FailedTransition(call.log[i])

\* a write has erased a page under erase-enable, written its words under
\* write-enable and gone back to read-only
C21_Witness ==
    /\ Returned("write")
    /\ call.res = ERROR_OK
    /\ \E j \in 1 .. Len(call.log) :
          call.log[j].e = "trig" /\ call.log[j].b = NRF52_NVMC_CONFIG_EEN
    /\ \E j \in 1 .. Len(call.log) :
          call.log[j].e \in {"word", "run"} /\ call.log[j].b = NRF52_NVMC_CONFIG_WEN
    /\ nvmc_config = NRF52_NVMC_CONFIG_REN

====
